---- MODULE Spec2Model ----
(***************************************************************************)
(* Model of the summarization proxy of backend/server.js: the synchronous *)
(* POST /api/summarize handler, the streaming relay                        *)
(* POST /api/summarize-stream and the status passthrough                   *)
(* GET /api/ollama-status, one request at a time; then two requests     *)
(* served at once by the same process; then the browser client's          *)
(* generateSummary (the App component).                                    *)
(*                                                                         *)
(* Strings are sequences of one-character strings, so that trimming,       *)
(* concatenation and splitting on newline are computed, not assumed.       *)
(* The upstream body travels as bytes on `wire`; the network cuts it into  *)
(* chunks at arbitrary byte positions.                                     *)
(***************************************************************************)
EXTENDS Integers, Sequences, FiniteSets, TLC

VARIABLES
    kind,          \* which route the request is for: "sync" | "stream" | "status"
    text,          \* req.body.text
    pc,            \* position of the handler: "start" | "awaiting" | "relaying" | "done"
    statusCode,    \* res.statusCode once headers are written, 0 before
    headersSent,   \* res.headersSent
    contentType,   \* "none" | "json" | "sse"
    jsonBodies,    \* bodies passed to res.json, in order
    events,        \* SSE frames passed to res.write, in order
    endCalls,      \* number of times the response has been ended
    fullResponse,  \* the relay's accumulator (let fullResponse)
    upstream,      \* state of the upstream request / body stream
    calls,         \* calls made to the upstream inference server
    wire,          \* upstream body bytes produced and not yet delivered
    sent,          \* history: the records (lines, or the reply) the upstream produced
    received,      \* history: the records the 'data' listener has parsed
    clientGone,    \* the downstream client has closed the connection
    failure,       \* error.code of the rejected upstream call, "" when none
    upTags,        \* what the upstream answers to GET /api/tags at present
    statusLog      \* history: one entry per answered status request

vars == <<kind, text, pc, statusCode, headersSent, contentType, jsonBodies,
          events, endCalls, fullResponse, upstream, calls, wire, sent,
          received, clientGone, failure, upTags, statusLog>>

statusVars == <<upTags, statusLog>>

\* state of the process while it serves two requests at once
VARIABLES
    reqs,          \* per request: req.body, the handler's position, its res
    fullResponses            \* per handler invocation: the binding of let fullResponse

concVars == <<reqs, fullResponses>>

\* state of the browser client
VARIABLES
    app,           \* the useState values of the App component
    pending,       \* summarize requests posted and not yet settled
    posts,         \* history: number of calls of axios.post for a summary
    clicks         \* history: number of times generateSummary has run

clientVars == <<app, pending, posts, clicks>>

\* the variables of the other two models, which the single-request model
\* leaves alone
otherVars == <<concVars, clientVars>>

allVars == <<vars, concVars, clientVars>>

\* no concurrent requests exist
ConcIdle == reqs = <<>> /\ fullResponses = <<>>

\* no client exists
ClientIdle == app = <<>> /\ pending = <<>> /\ posts = 0 /\ clicks = 0

----------------------------------------------------------------------------
(* Bounds of the model *)

\* number of records the upstream produces in one stream
MaxRecords == 2

\* number of status requests made one after the other
MaxStatusRequests == 3

----------------------------------------------------------------------------
(* Values *)

\* req.body.text absent (undefined)
Undefined == <<"<undefined>">>

\* req.body.text present and truthy but not a string (a number, an array)
NonString == <<"<non-string>">>

NL == "\n"

\* request texts: missing, not a string, empty, whitespace-only, and two
\* accepted ones
Texts == {Undefined, NonString, <<>>, <<" ">>, <<"a">>, <<" ", "a">>}

\* token fragments an upstream record may carry ("" = no fragment)
Fragments == {<<>>, <<"a">>, <<"b", " ">>}

\* the body of a non-streaming upstream reply ({response})
Responses == {Undefined, <<"a">>, <<" ", "a", " ">>}

\* one upstream NDJSON record {response, done} as bytes on the wire
Encode(response, done) ==
    <<"{">> \o response \o (IF done THEN <<"!">> ELSE <<>>) \o <<"}">>

\* a line that is not JSON
Garbage == <<"x">>

\* process.env.OLLAMA_URL || 'http://localhost:11434'
OLLAMA_URL == <<"http://localhost:11434">>

\* error.code values of a rejected upstream call: connection refused,
\* timeout, a non-2xx answer
ErrorCodes == {"ECONNREFUSED", "ETIMEDOUT", "ERR_BAD_RESPONSE"}

\* error.message of a rejected upstream call
ErrorMessage(code) == <<"message of ", code>>

\* the lines an upstream may produce
Lines == {Encode(f, d) : f \in Fragments, d \in BOOLEAN} \cup {Garbage}

\* process.env.MODEL_NAME || 'mistral'
MODEL_NAME == <<"m", "i">>

\* entries of the upstream's model list; the last one has no name property
ModelA == [name |-> <<"m", "i", ":">>, size |-> 1]
ModelB == [name |-> <<"x", "m", "i">>, size |-> 2]
ModelC == [name |-> <<"i", "m">>, size |-> 3]
NoName == [size |-> 4]

\* model lists the upstream may return in {models: [...]}
ModelLists ==
    { <<>>, <<ModelA>>, <<ModelC>>, <<ModelC, ModelB>>, <<ModelB, ModelC>>,
      <<NoName>>, <<ModelA, NoName>>, <<NoName, ModelA>> }

\* what GET {OLLAMA_URL}/api/tags may give: a model list, a body without
\* models, a models value that is not an array, or a rejected call
TagStates ==
    {[kind |-> "ok", models |-> l] : l \in ModelLists}
        \cup {[kind |-> k, models |-> <<>>] : k \in {"absent", "notArray"} \cup ErrorCodes}

----------------------------------------------------------------------------
(* String functions of the runtime, computed on character sequences *)

IsWs(c) == c \in {" ", NL}

RECURSIVE TrimStart(_)
TrimStart(s) ==
    IF s = <<>> THEN <<>>
    ELSE IF IsWs(Head(s)) THEN TrimStart(Tail(s)) ELSE s

RECURSIVE TrimEnd(_)
TrimEnd(s) ==
    IF s = <<>> THEN <<>>
    ELSE IF IsWs(s[Len(s)]) THEN TrimEnd(SubSeq(s, 1, Len(s) - 1)) ELSE s

\* String.prototype.trim
Trim(s) == TrimEnd(TrimStart(s))

\* String.prototype.split('\n'): n newlines give n + 1 pieces
RECURSIVE SplitFrom(_, _)
SplitFrom(s, cur) ==
    IF s = <<>> THEN <<cur>>
    ELSE IF Head(s) = NL THEN <<cur>> \o SplitFrom(Tail(s), <<>>)
    ELSE SplitFrom(Tail(s), Append(cur, Head(s)))

SplitLines(s) == SplitFrom(s, <<>>)

\* JSON.parse of one line: [ok, response, done]; ok = FALSE when it throws.
\* Surrounding whitespace is allowed by JSON; an object starts with an
\* opening and ends with a closing brace.
JSONParse(line) ==
    LET t    == Trim(line)
        n    == Len(t)
        bad  == [ok |-> FALSE, response |-> <<>>, done |-> FALSE]
    IN  IF n < 2 \/ t[1] # "{" \/ t[n] # "}" THEN bad
        ELSE LET inner == SubSeq(t, 2, n - 1)
                 m     == Len(inner)
                 done  == m > 0 /\ inner[m] = "!"
                 resp  == IF done THEN SubSeq(inner, 1, m - 1) ELSE inner
             IN  IF \A i \in 1..Len(resp) : resp[i] \in {"a", "b", " "}
                 THEN [ok |-> TRUE, response |-> resp, done |-> done]
                 ELSE bad

\* text.trim is not a function: the validation throws a TypeError
ValidationThrows(t) == t = NonString

\* the check without the trim: whitespace-only text passes
InvalidTextNoTrim(t) == t = Undefined \/ t = <<>>

\* !text || text.trim().length === 0
InvalidText(t) == t = Undefined \/ t = <<>> \/ Trim(t) = <<>>

----------------------------------------------------------------------------
(* The downstream response *)

Event(type, content, full, orig, msg, ends) ==
    [type |-> type, content |-> content, full |-> full, orig |-> orig,
     msg |-> msg, late |-> ends > 0]

StartEvent == Event("start", <<>>, <<>>, <<>>, "Starting summary generation...", 0)

JsonBody(success, error, summary, orig, details) ==
    [success |-> success, error |-> error, summary |-> summary,
     originalText |-> orig, details |-> details]

Init ==
    /\ \/ kind \in {"sync", "stream"} /\ text \in Texts
          /\ upTags = [kind |-> "ok", models |-> <<>>]
       \/ kind = "status" /\ text = Undefined /\ upTags \in TagStates
    /\ pc = "start"
    /\ statusCode = 0
    /\ headersSent = FALSE
    /\ contentType = "none"
    /\ jsonBodies = <<>>
    /\ events = <<>>
    /\ endCalls = 0
    /\ fullResponse = <<>>
    /\ upstream = "none"
    /\ calls = <<>>
    /\ wire = <<>>
    /\ sent = <<>>
    /\ received = <<>>
    /\ clientGone = FALSE
    /\ failure = ""
    /\ statusLog = <<>>
    /\ ConcIdle
    /\ ClientIdle

\* res.status(code).json(body)
JsonReply(code, body) ==
    /\ statusCode' = code
    /\ headersSent' = TRUE
    /\ contentType' = "json"
    /\ jsonBodies' = Append(jsonBodies, body)
    /\ endCalls' = endCalls + 1

----------------------------------------------------------------------------
(* POST /api/summarize-stream *)

\* the first lines of the prompt template; the request text follows them
PromptPrefix == <<"P", NL, NL>>

Prompt(t) == PromptPrefix \o t

\* the refusal written as an SSE error frame after the SSE headers
RejectStreamAsFrame ==
    /\ statusCode' = 200
    /\ headersSent' = TRUE
    /\ contentType' = "sse"
    /\ events' = Append(events, Event("error", <<>>, <<>>, <<>>,
                                      "Text is required for summarization", endCalls))
    /\ endCalls' = endCalls + 1
    /\ UNCHANGED jsonBodies

\* lines 98-100: the request is refused before any SSE header is written
RejectStream ==
    /\ JsonReply(400, JsonBody(FALSE, "Text is required for summarization",
                               <<>>, <<>>, <<>>))
    /\ UNCHANGED events

\* the SSE headers without the start frame
OpenStreamNoStart ==
    /\ statusCode' = 200
    /\ headersSent' = TRUE
    /\ contentType' = "sse"
    /\ UNCHANGED <<events, jsonBodies, endCalls>>

\* lines 105-114: res.writeHead(200, text/event-stream) and the start frame
OpenStream ==
    /\ statusCode' = 200
    /\ headersSent' = TRUE
    /\ contentType' = "sse"
    /\ events' = Append(events, StartEvent)
    /\ UNCHANGED <<jsonBodies, endCalls>>

\* the catch block's message for error.code
CatchMessage(code) ==
    IF code = "ECONNREFUSED"
    THEN "Cannot connect to Ollama. Please ensure Ollama is running locally."
    ELSE "Failed to generate summary"

\* lines 192-205 entered from line 98: the frame is written on a response
\* whose headers were not set (implicit 200, no event-stream content type)
CatchBeforeHeaders ==
    /\ statusCode' = 200
    /\ headersSent' = TRUE
    /\ contentType' = "implicit"
    /\ events' = Append(events, Event("error", <<>>, <<>>, <<>>,
                                      CatchMessage("TypeError"), endCalls))
    /\ endCalls' = endCalls + 1
    /\ UNCHANGED jsonBodies

\* the handler up to the await of the upstream call
StreamRequest ==
    /\ kind = "stream" /\ pc = "start"
    /\ IF ValidationThrows(text)
       THEN /\ CatchBeforeHeaders
            /\ pc' = "done"
            /\ UNCHANGED <<upstream, calls>>
       ELSE IF InvalidText(text)
       THEN /\ RejectStream
            /\ pc' = "done"
            /\ UNCHANGED <<upstream, calls>>
       ELSE /\ OpenStream
            /\ calls' = Append(calls, [url |-> "/api/generate", stream |-> TRUE,
                                       prompt |-> Prompt(text)])
            /\ upstream' = "pending"
            /\ pc' = "awaiting"
    /\ UNCHANGED <<otherVars, kind, failure, statusVars, text, fullResponse, wire, sent, received, clientGone>>

\* the await resolves: the accumulator is created and the four listeners
\* ('data', 'error', 'end' on the upstream body, 'close' on req) are registered
StreamConnected ==
    /\ kind = "stream" /\ pc = "awaiting" /\ upstream = "pending"
    /\ fullResponse' = <<>>
    /\ upstream' = "open"
    /\ pc' = "relaying"
    /\ UNCHANGED <<otherVars, kind, failure, statusVars, text, statusCode, headersSent, contentType, jsonBodies,
                   events, endCalls, calls, wire, sent, received, clientGone>>

\* the failure answered with an HTTP error status and a JSON body
StreamCallFailedAsStatus(code) ==
    /\ kind = "stream" /\ pc = "awaiting" /\ upstream = "pending"
    /\ JsonReply(IF code = "ECONNREFUSED" THEN 503 ELSE 500,
                 JsonBody(FALSE, CatchMessage(code), <<>>, <<>>, ErrorMessage(code)))
    /\ failure' = code
    /\ upstream' = "failed"
    /\ pc' = "done"
    /\ UNCHANGED <<otherVars, kind, statusVars, text, events, fullResponse, calls, wire, sent,
                   received, clientGone>>

\* a failed call repeated once before the catch block gives up
StreamCallFailedRetry(code) ==
    /\ kind = "stream" /\ pc = "awaiting" /\ upstream = "pending"
    /\ IF Len(calls) < 2
       THEN /\ calls' = Append(calls, calls[1])
            /\ UNCHANGED <<events, endCalls, upstream, pc, failure>>
       ELSE /\ events' = Append(events, Event("error", <<>>, <<>>, <<>>,
                                              CatchMessage(code), endCalls))
            /\ endCalls' = endCalls + 1
            /\ failure' = code
            /\ upstream' = "failed"
            /\ pc' = "done"
            /\ UNCHANGED calls
    /\ UNCHANGED <<otherVars, kind, statusVars, text, statusCode, headersSent, contentType,
                   jsonBodies, fullResponse, wire, sent, received, clientGone>>

\* the await rejects: the catch block writes one error frame and ends
StreamCallFailed(code) ==
    /\ kind = "stream" /\ pc = "awaiting" /\ upstream = "pending"
    /\ events' = Append(events, Event("error", <<>>, <<>>, <<>>,
                                      CatchMessage(code), endCalls))
    /\ endCalls' = endCalls + 1
    /\ failure' = code
    /\ upstream' = "failed"
    /\ pc' = "done"
    /\ UNCHANGED <<otherVars, kind, statusVars, text, statusCode, headersSent, contentType, jsonBodies,
                   fullResponse, calls, wire, sent, received, clientGone>>

(* The 'data' listener works on st = [full, ev, ends, rcv]: the accumulator, *)
(* the frames written, the number of res.end calls, and the history of the  *)
(* records parsed.                                                          *)

\* the accumulator assigned instead of appended to
WriteChunkAssign(st, frag) ==
    [st EXCEPT !.full = frag,
               !.ev = Append(@, Event("chunk", frag, frag, <<>>, "", st.ends))]

\* lines 139-145: append the fragment, write a chunk frame
WriteChunk(st, frag) ==
    LET acc == st.full \o frag
    IN  [st EXCEPT !.full = acc,
                   !.ev = Append(@, Event("chunk", frag, acc, <<>>, "", st.ends))]

\* the complete frame with the accumulator untrimmed
WriteCompleteUntrimmed(st, orig) ==
    [st EXCEPT !.ev = Append(@, Event("complete", st.full, <<>>, orig, "",
                                      st.ends)),
               !.ends = @ + 1]

\* lines 150-155: write the complete frame and end the response
WriteComplete(st, orig) ==
    [st EXCEPT !.ev = Append(@, Event("complete", Trim(st.full), <<>>, orig, "",
                                      st.ends)),
               !.ends = @ + 1]

\* a line that does not parse answered by an error frame and the end of the
\* response
ProcessLineStopsOnBadLine(st, line, orig) ==
    IF Trim(line) = <<>> THEN st
    ELSE LET parsed == JSONParse(line)
         IN  IF ~parsed.ok
             THEN [st EXCEPT !.ev = Append(@, Event("error", <<>>, <<>>, <<>>,
                                                    "Stream processing error", st.ends)),
                             !.ends = @ + 1]
             ELSE LET s0 == [st EXCEPT !.rcv = Append(@,
                                     [response |-> parsed.response,
                                      done |-> parsed.done])]
                      s1 == IF parsed.response # <<>>
                            THEN WriteChunk(s0, parsed.response) ELSE s0
                  IN  IF parsed.done THEN WriteComplete(s1, orig) ELSE s1

\* lines 135-160: one line of a chunk
ProcessLine(st, line, orig) ==
    IF Trim(line) = <<>> THEN st
    ELSE LET parsed == JSONParse(line)
         IN  IF ~parsed.ok THEN st
             ELSE LET s0 == [st EXCEPT !.rcv = Append(@,
                                     [response |-> parsed.response,
                                      done |-> parsed.done])]
                      s1 == IF parsed.response # <<>>
                            THEN WriteChunk(s0, parsed.response) ELSE s0
                  IN  IF parsed.done THEN WriteComplete(s1, orig) ELSE s1

RECURSIVE ProcessLines(_, _, _)
ProcessLines(st, lines, orig) ==
    IF lines = <<>> THEN st
    ELSE ProcessLines(ProcessLine(st, Head(lines), orig), Tail(lines), orig)

\* lines 131-162: the 'data' listener on one chunk
DataHandler(st, chunk, orig) == ProcessLines(st, SplitLines(chunk), orig)

RelayState ==
    [full |-> fullResponse, ev |-> events, ends |-> endCalls, rcv |-> received]

\* the upstream server writes one more record, newline-terminated
UpstreamProduce(line) ==
    /\ kind = "stream" /\ upstream = "open"
    /\ Len(sent) < MaxRecords
    /\ wire' = wire \o line \o <<NL>>
    /\ sent' = Append(sent, line)
    /\ UNCHANGED <<otherVars, received, kind, failure, statusVars, text, pc, statusCode, headersSent, contentType,
                   jsonBodies, events, endCalls, fullResponse, upstream, calls,
                   clientGone>>

\* the network delivers the next k bytes as one chunk: 'data' fires
UpstreamData(k) ==
    /\ kind = "stream" /\ pc = "relaying" /\ upstream = "open"
    /\ k \in 1..Len(wire)
    /\ LET st == DataHandler(RelayState, SubSeq(wire, 1, k), text)
       IN  /\ fullResponse' = st.full
           /\ events' = st.ev
           /\ endCalls' = st.ends
           /\ received' = st.rcv
    /\ wire' = SubSeq(wire, k + 1, Len(wire))
    /\ UNCHANGED <<otherVars, kind, failure, statusVars, text, pc, statusCode, headersSent, contentType,
                   jsonBodies, upstream, calls, sent, clientGone>>

\* lines 164-171: 'error' on the upstream body
UpstreamError ==
    /\ kind = "stream" /\ pc = "relaying" /\ upstream = "open"
    /\ events' = Append(events, Event("error", <<>>, <<>>, <<>>,
                                      "Stream processing error", endCalls))
    /\ endCalls' = endCalls + 1
    /\ upstream' = "errored"
    /\ wire' = <<>>
    /\ UNCHANGED <<otherVars, kind, failure, statusVars, text, pc, statusCode, headersSent, contentType,
                   jsonBodies, fullResponse, calls, sent, received, clientGone>>

\* lines 173-182: 'end' on the upstream body, once every byte was delivered
UpstreamEnd ==
    /\ kind = "stream" /\ pc = "relaying" /\ upstream = "open"
    /\ wire = <<>>
    /\ IF ~headersSent
       THEN /\ events' = Append(events, Event("complete", Trim(fullResponse),
                                              <<>>, text, "", endCalls))
            /\ endCalls' = endCalls + 1
       ELSE UNCHANGED <<events, endCalls>>
    /\ upstream' = "ended"
    /\ UNCHANGED <<otherVars, kind, failure, statusVars, text, pc, statusCode, headersSent, contentType,
                   jsonBodies, fullResponse, calls, wire, sent, received, clientGone>>

\* the client closes the connection: req emits 'close'. The listener of
\* lines 185-190 exists only once the await has resolved; before that the
\* event has no listener.
ClientClose ==
    /\ kind = "stream" /\ pc \in {"awaiting", "relaying"}
    /\ ~clientGone
    /\ clientGone' = TRUE
    /\ IF pc = "relaying" /\ upstream = "open"
       THEN upstream' = "destroyed" /\ wire' = <<>>
       ELSE UNCHANGED <<upstream, wire>>
    /\ UNCHANGED <<otherVars, kind, failure, statusVars, text, pc, statusCode, headersSent, contentType,
                   jsonBodies, events, endCalls, fullResponse, calls, sent, received>>

----------------------------------------------------------------------------
(* POST /api/summarize *)

\* lines 50-66: validation, then the single upstream call; a TypeError thrown
\* by the validation is answered by the catch block (lines 76-90)
SummarizeRequest ==
    /\ kind = "sync" /\ pc = "start"
    /\ IF ValidationThrows(text)
       THEN /\ JsonReply(500, JsonBody(FALSE, "Failed to generate summary", <<>>,
                                       <<>>, <<"TypeError">>))
            /\ pc' = "done"
            /\ UNCHANGED <<upstream, calls>>
       ELSE IF InvalidText(text)
       THEN /\ JsonReply(400, JsonBody(FALSE, "Text is required for summarization",
                                       <<>>, <<>>, <<>>))
            /\ pc' = "done"
            /\ UNCHANGED <<upstream, calls>>
       ELSE /\ calls' = Append(calls, [url |-> "/api/generate", stream |-> FALSE,
                                       prompt |-> Prompt(text)])
            /\ upstream' = "pending"
            /\ pc' = "awaiting"
            /\ UNCHANGED <<statusCode, headersSent, contentType, jsonBodies,
                           endCalls>>
    /\ UNCHANGED <<otherVars, kind, failure, statusVars, text, events, fullResponse, wire, sent, received, clientGone>>

\* the reply with originalText trimmed
SummarizeRepliedTrimsOriginal(response) ==
    /\ kind = "sync" /\ pc = "awaiting" /\ upstream = "pending"
    /\ IF response = Undefined
       THEN JsonReply(500, JsonBody(FALSE, "Failed to generate summary", <<>>,
                                    <<>>, <<"TypeError">>))
       ELSE JsonReply(200, JsonBody(TRUE, "", Trim(response), Trim(text), <<>>))
    /\ upstream' = "ended"
    /\ pc' = "done"
    /\ sent' = Append(sent, response)
    /\ UNCHANGED <<otherVars, kind, failure, statusVars, text, events, fullResponse, calls, wire,
                   received, clientGone>>

\* lines 68-74: the upstream replied; summary.trim() throws a TypeError when
\* the reply has no response field, and the catch block answers 500
SummarizeReplied(response) ==
    /\ kind = "sync" /\ pc = "awaiting" /\ upstream = "pending"
    /\ IF response = Undefined
       THEN JsonReply(500, JsonBody(FALSE, "Failed to generate summary", <<>>,
                                    <<>>, <<"TypeError">>))
       ELSE JsonReply(200, JsonBody(TRUE, "", Trim(response), text, <<>>))
    /\ upstream' = "ended"
    /\ pc' = "done"
    /\ sent' = Append(sent, response)
    /\ UNCHANGED <<otherVars, kind, failure, statusVars, text, events, fullResponse, calls, wire,
                   received, clientGone>>

\* the catch block without the ECONNREFUSED branch
SummarizeFailedAlways500(code) ==
    /\ kind = "sync" /\ pc = "awaiting" /\ upstream = "pending"
    /\ JsonReply(500, JsonBody(FALSE, "Failed to generate summary", <<>>,
                               <<>>, ErrorMessage(code)))
    /\ failure' = code
    /\ upstream' = "failed"
    /\ pc' = "done"
    /\ UNCHANGED <<otherVars, kind, statusVars, text, events, fullResponse, calls, wire, sent, received, clientGone>>

\* lines 76-90: the upstream call failed
SummarizeFailed(code) ==
    /\ kind = "sync" /\ pc = "awaiting" /\ upstream = "pending"
    /\ IF code = "ECONNREFUSED"
       THEN JsonReply(503, JsonBody(FALSE,
                "Cannot connect to Ollama. Please ensure Ollama is running locally.",
                <<>>, <<>>, <<"Trying to connect to: ">> \o OLLAMA_URL))
       ELSE JsonReply(500, JsonBody(FALSE, "Failed to generate summary", <<>>,
                                    <<>>, ErrorMessage(code)))
    /\ failure' = code
    /\ upstream' = "failed"
    /\ pc' = "done"
    /\ UNCHANGED <<otherVars, kind, statusVars, text, events, fullResponse, calls, wire, sent, received, clientGone>>

----------------------------------------------------------------------------
(* GET /api/ollama-status *)

IsPrefix(p, s) == Len(p) <= Len(s) /\ SubSeq(s, 1, Len(p)) = p

\* the name compared for equality instead of searched
IncludesExact(s, sub) == s = sub

\* String.prototype.includes
RECURSIVE IncludesFrom(_, _)
IncludesFrom(s, sub) ==
    IF IsPrefix(sub, s) THEN TRUE
    ELSE IF s = <<>> THEN FALSE
    ELSE IncludesFrom(Tail(s), sub)

Includes(s, sub) == IncludesFrom(s, sub)

\* m.name
NameOf(m) == IF "name" \in DOMAIN m THEN m.name ELSE Undefined

\* line 30: models.some(model => model.name.includes(MODEL_NAME)), which
\* stops at the first hit and throws a TypeError on an entry without a name
\* reached before one: "true" | "false" | "throw"
RECURSIVE SomeIncludes(_)
SomeIncludes(models) ==
    IF models = <<>> THEN "false"
    ELSE IF NameOf(Head(models)) = Undefined THEN "throw"
    ELSE IF Includes(NameOf(Head(models)), MODEL_NAME) THEN "true"
    ELSE SomeIncludes(Tail(models))

\* lines 39-43: the payload of the catch block
StatusFailure(message) ==
    [connected |-> FALSE, models |-> <<>>, hasRequiredModel |-> FALSE,
     requiredModel |-> MODEL_NAME, error |-> message]

\* lines 28-43: the payload for what the upstream answered
StatusPayload(up) ==
    IF up.kind \in ErrorCodes THEN StatusFailure(ErrorMessage(up.kind))
    ELSE IF up.kind = "notArray" THEN StatusFailure(<<"TypeError">>)
    ELSE LET models == IF up.kind = "absent" THEN <<>> ELSE up.models
             found  == SomeIncludes(models)
         IN  IF found = "throw" THEN StatusFailure(<<"TypeError">>)
             ELSE [connected |-> TRUE,
                   models |-> [i \in 1..Len(models) |-> NameOf(models[i])],
                   hasRequiredModel |-> (found = "true"),
                   requiredModel |-> MODEL_NAME, error |-> <<>>]

\* a failure answered with an HTTP error status
StatusCodeByOutcome(payload) == IF payload.connected THEN 200 ELSE 503

\* res.json without res.status: the status code stays 200
StatusCodeFor(payload) == 200

\* line 28: the handler up to the await of the model-list call
StatusRequest ==
    /\ kind = "status" /\ pc = "start"
    /\ calls' = Append(calls, [url |-> "/api/tags", stream |-> FALSE,
                               prompt |-> <<>>])
    /\ upstream' = "pending"
    /\ pc' = "awaiting"
    /\ UNCHANGED <<otherVars, kind, failure, statusVars, text, statusCode, headersSent,
                   contentType, jsonBodies, events, endCalls, fullResponse, wire,
                   sent, received, clientGone>>

\* the answer taken from the first status request instead of the upstream
StatusRepliedCached ==
    /\ kind = "status" /\ pc = "awaiting" /\ upstream = "pending"
    /\ LET payload == IF statusLog = <<>> THEN StatusPayload(upTags)
                      ELSE statusLog[1].body
       IN  /\ JsonReply(StatusCodeFor(payload), payload)
           /\ statusLog' = Append(statusLog,
                 [seen |-> upTags, body |-> payload,
                  status |-> StatusCodeFor(payload), calls |-> Len(calls)])
    /\ failure' = IF upTags.kind \in ErrorCodes THEN upTags.kind ELSE ""
    /\ upstream' = IF upTags.kind \in ErrorCodes THEN "failed" ELSE "ended"
    /\ pc' = "done"
    /\ UNCHANGED <<otherVars, kind, upTags, text, events, fullResponse, calls, wire, sent,
                   received, clientGone>>

\* lines 28-44: the model-list call settles with what the upstream answers
\* now, and the handler replies
StatusReplied ==
    /\ kind = "status" /\ pc = "awaiting" /\ upstream = "pending"
    /\ LET payload == StatusPayload(upTags)
       IN  /\ JsonReply(StatusCodeFor(payload), payload)
           /\ statusLog' = Append(statusLog,
                 [seen |-> upTags, body |-> payload,
                  status |-> StatusCodeFor(payload), calls |-> Len(calls)])
    /\ failure' = IF upTags.kind \in ErrorCodes THEN upTags.kind ELSE ""
    /\ upstream' = IF upTags.kind \in ErrorCodes THEN "failed" ELSE "ended"
    /\ pc' = "done"
    /\ UNCHANGED <<otherVars, kind, upTags, text, events, fullResponse, calls, wire, sent,
                   received, clientGone>>

\* the next status request arrives, with a response object of its own
StatusAgain ==
    /\ kind = "status" /\ pc = "done"
    /\ Len(statusLog) < MaxStatusRequests
    /\ pc' = "start"
    /\ statusCode' = 0
    /\ headersSent' = FALSE
    /\ contentType' = "none"
    /\ jsonBodies' = <<>>
    /\ endCalls' = 0
    /\ calls' = <<>>
    /\ upstream' = "none"
    /\ failure' = ""
    /\ UNCHANGED <<otherVars, kind, statusVars, text, events, fullResponse, wire, sent,
                   received, clientGone>>

\* the upstream changes: the server goes down or comes up, models are
\* pulled or removed
UpstreamTagsChange(t) ==
    /\ kind = "status"
    /\ t # upTags
    /\ upTags' = t
    /\ UNCHANGED <<otherVars, kind, failure, statusLog, text, pc, statusCode, headersSent,
                   contentType, jsonBodies, events, endCalls, fullResponse,
                   upstream, calls, wire, sent, received, clientGone>>

----------------------------------------------------------------------------

Next ==
    \/ StreamRequest
    \/ StreamConnected
    \/ \E code \in ErrorCodes : StreamCallFailed(code)
    \/ \E line \in Lines : UpstreamProduce(line)
    \/ \E k \in 1..Len(wire) : UpstreamData(k)
    \/ UpstreamError
    \/ UpstreamEnd
    \/ ClientClose
    \/ SummarizeRequest
    \/ \E response \in Responses : SummarizeReplied(response)
    \/ \E code \in ErrorCodes : SummarizeFailed(code)
    \/ StatusRequest
    \/ StatusReplied
    \/ StatusAgain
    \/ \E t \in TagStates : UpstreamTagsChange(t)

Spec == Init /\ [][Next]_allVars

----------------------------------------------------------------------------
(* Two requests served at once.  Node runs one callback at a time, so each *)
(* action below is one handler or listener of one request, run to its end; *)
(* the callbacks of the two requests interleave in any order.  Each call   *)
(* of a route handler has its own req and res and its own bindings of      *)
(* text and fullResponse.                                                  *)

\* number of chunks one upstream body delivers
MaxConcChunks == 2

\* the requests in flight
Ids == {"r1", "r2"}

ConcTexts == {<<" ">>, <<"a">>, <<" ", "a">>}

\* chunks the upstream bodies deliver: a record, two records, a last record
ConcChunks ==
    {Encode(<<"a">>, FALSE) \o <<NL>>,
     Encode(<<"b", " ">>, FALSE) \o <<NL>> \o Encode(<<"a">>, FALSE) \o <<NL>>,
     Encode(<<"b", " ">>, TRUE) \o <<NL>>}

\* a request as it arrives
NewRequest(k, t) ==
    [kind |-> k, text |-> t, pc |-> "start", code |-> 0, bodies |-> <<>>,
     ev |-> <<>>, ends |-> 0, up |-> "none", chunks |-> <<>>, rcv |-> <<>>,
     reply |-> <<>>]

ConcInit ==
    /\ reqs \in {[r \in Ids |-> NewRequest(k[r], t[r])] :
                    k \in [Ids -> {"sync", "stream"}], t \in [Ids -> ConcTexts]}
    /\ fullResponses = [r \in Ids |-> <<>>]
    /\ ClientIdle
    /\ kind = "none" /\ text = Undefined /\ pc = "done" /\ statusCode = 0
    /\ headersSent = FALSE /\ contentType = "none" /\ jsonBodies = <<>>
    /\ events = <<>> /\ endCalls = 0 /\ fullResponse = <<>>
    /\ upstream = "none" /\ calls = <<>> /\ wire = <<>> /\ sent = <<>>
    /\ received = <<>> /\ clientGone = FALSE /\ failure = ""
    /\ upTags = [kind |-> "ok", models |-> <<>>] /\ statusLog = <<>>

\* one accumulator for the whole process, at module level
ScopeShared(r) == "r1"

\* line 128: let fullResponse is declared inside the route handler, so every
\* call of the handler binds an accumulator of its own
Scope(r) == r

\* res.status(code).json(body) on the response of one request
ConcJson(q, code, body) ==
    [q EXCEPT !.code = code, !.bodies = Append(@, body), !.ends = @ + 1,
              !.pc = "done"]

\* either POST handler up to its await
ConcRequest(r) ==
    LET q == reqs[r]
        refusal == JsonBody(FALSE, "Text is required for summarization",
                            <<>>, <<>>, <<>>)
    IN  /\ q.pc = "start"
        /\ reqs' = [reqs EXCEPT ![r] =
              IF InvalidText(q.text) THEN ConcJson(q, 400, refusal)
              ELSE IF q.kind = "stream"
              THEN [q EXCEPT !.code = 200, !.ev = Append(@, StartEvent),
                             !.up = "pending", !.pc = "awaiting"]
              ELSE [q EXCEPT !.up = "pending", !.pc = "awaiting"]]
        /\ UNCHANGED <<fullResponses, vars, clientVars>>

\* lines 116-190 for one request: the await resolves, the accumulator is
\* bound and the listeners are registered
ConcConnected(r) ==
    /\ reqs[r].kind = "stream" /\ reqs[r].pc = "awaiting"
    /\ fullResponses' = [fullResponses EXCEPT ![Scope(r)] = <<>>]
    /\ reqs' = [reqs EXCEPT ![r].up = "open", ![r].pc = "relaying"]
    /\ UNCHANGED <<vars, clientVars>>

\* the 'data' listener of one request on one chunk
ConcData(r, chunk) ==
    LET q == reqs[r]
        st == DataHandler([full |-> fullResponses[Scope(r)], ev |-> q.ev,
                           ends |-> q.ends, rcv |-> q.rcv], chunk, q.text)
    IN  /\ q.kind = "stream" /\ q.pc = "relaying" /\ q.up = "open"
        /\ Len(q.chunks) < MaxConcChunks
        /\ fullResponses' = [fullResponses EXCEPT ![Scope(r)] = st.full]
        /\ reqs' = [reqs EXCEPT ![r] =
              [q EXCEPT !.ev = st.ev, !.ends = st.ends, !.rcv = st.rcv,
                        !.chunks = Append(@, chunk)]]
        /\ UNCHANGED <<vars, clientVars>>

\* the 'error' listener of one request
ConcError(r) ==
    LET q == reqs[r]
    IN  /\ q.kind = "stream" /\ q.pc = "relaying" /\ q.up = "open"
        /\ reqs' = [reqs EXCEPT ![r] =
              [q EXCEPT !.ev = Append(@, Event("error", <<>>, <<>>, <<>>,
                                               "Stream processing error", q.ends)),
                        !.ends = @ + 1, !.up = "errored"]]
        /\ UNCHANGED <<fullResponses, vars, clientVars>>

\* the 'close' listener of one request: its upstream body is destroyed
ConcClose(r) ==
    /\ reqs[r].kind = "stream" /\ reqs[r].pc = "relaying"
    /\ reqs[r].up = "open"
    /\ reqs' = [reqs EXCEPT ![r].up = "destroyed"]
    /\ UNCHANGED <<fullResponses, vars, clientVars>>

\* the catch block of either handler: the upstream call of one request failed
ConcCallFailed(r, code) ==
    LET q == reqs[r]
    IN  /\ q.pc = "awaiting"
        /\ reqs' = [reqs EXCEPT ![r] =
              IF q.kind = "stream"
              THEN [q EXCEPT !.ev = Append(@, Event("error", <<>>, <<>>, <<>>,
                                                    CatchMessage(code), q.ends)),
                             !.ends = @ + 1, !.up = "failed", !.pc = "done"]
              ELSE [ConcJson(q, IF code = "ECONNREFUSED" THEN 503 ELSE 500,
                             JsonBody(FALSE, CatchMessage(code), <<>>, <<>>,
                                      IF code = "ECONNREFUSED"
                                      THEN <<"Trying to connect to: ">> \o OLLAMA_URL
                                      ELSE ErrorMessage(code)))
                    EXCEPT !.up = "failed"]]
        /\ UNCHANGED <<fullResponses, vars, clientVars>>

\* lines 68-74 for one request: the upstream replied to the synchronous call
ConcReplied(r, response) ==
    LET q == reqs[r]
    IN  /\ q.kind = "sync" /\ q.pc = "awaiting"
        /\ reqs' = [reqs EXCEPT ![r] =
              [(IF response = Undefined
                THEN ConcJson(q, 500, JsonBody(FALSE, "Failed to generate summary",
                                               <<>>, <<>>, <<"TypeError">>))
                ELSE ConcJson(q, 200, JsonBody(TRUE, "", Trim(response), q.text,
                                               <<>>)))
               EXCEPT !.up = "ended", !.reply = response]]
        /\ UNCHANGED <<fullResponses, vars, clientVars>>

ConcNext ==
    \/ \E r \in Ids : ConcRequest(r)
    \/ \E r \in Ids : ConcConnected(r)
    \/ \E r \in Ids, chunk \in ConcChunks : ConcData(r, chunk)
    \/ \E r \in Ids : ConcError(r)
    \/ \E r \in Ids : ConcClose(r)
    \/ \E r \in Ids, code \in ErrorCodes : ConcCallFailed(r, code)
    \/ \E r \in Ids, response \in Responses : ConcReplied(r, response)

ConcSpec == ConcInit /\ [][ConcNext]_allVars

----------------------------------------------------------------------------
(* The browser client: the App component.  Each action is one event       *)
(* handler, or the continuation of generateSummary after its await, run   *)
(* to its end; React re-renders with the new state before the next click  *)
(* is dispatched, so the button a click reaches is the one drawn from the *)
(* current state.                                                          *)

\* number of times the Generate Summary button is clicked
MaxClicks == 3

\* length of the transcript speech recognition builds up
MaxTranscript == 2

\* final transcripts delivered by speech recognition
Utterances == {<<" ">>, <<"a">>}

\* values typed into the transcript textarea
Typed == {<<>>, <<NL>>, <<"a">>}

\* ways the summarize request settles: a 2xx response with its body, an
\* error status with or without an error field, no response at all
Settlements ==
    {[how |-> "response", success |-> TRUE, summary |-> <<"s">>, error |-> ""],
     [how |-> "response", success |-> FALSE, summary |-> <<>>, error |-> ""],
     [how |-> "status", success |-> FALSE, summary |-> <<>>,
      error |-> "Cannot connect to Ollama. Please ensure Ollama is running locally."],
     [how |-> "status", success |-> FALSE, summary |-> <<>>, error |-> ""],
     [how |-> "network", success |-> FALSE, summary |-> <<>>, error |-> ""]}

\* lines 9-16: the useState initial values
ClientInit ==
    /\ app = [isRecording |-> FALSE, transcribedText |-> <<>>, summary |-> <<>>,
              isLoading |-> FALSE, error |-> "", ollamaStatus |-> "null"]
    /\ pending = <<>>
    /\ posts = 0
    /\ clicks = 0
    /\ ConcIdle
    /\ kind = "none" /\ text = Undefined /\ pc = "done" /\ statusCode = 0
    /\ headersSent = FALSE /\ contentType = "none" /\ jsonBodies = <<>>
    /\ events = <<>> /\ endCalls = 0 /\ fullResponse = <<>>
    /\ upstream = "none" /\ calls = <<>> /\ wire = <<>> /\ sent = <<>>
    /\ received = <<>> /\ clientGone = FALSE /\ failure = ""
    /\ upTags = [kind |-> "ok", models |-> <<>>] /\ statusLog = <<>>

\* lines 24-32: checkOllamaStatus settles, once, after mount
StatusChecked(connected) ==
    /\ app.ollamaStatus = "null"
    /\ app' = [app EXCEPT !.ollamaStatus =
                  IF connected THEN "connected" ELSE "disconnected"]
    /\ UNCHANGED <<pending, posts, clicks, vars, concVars>>

\* lines 78-86: startRecording
StartRecording ==
    /\ ~app.isRecording
    /\ app' = [app EXCEPT !.error = "", !.transcribedText = <<>>,
                          !.summary = <<>>, !.isRecording = TRUE]
    /\ UNCHANGED <<pending, posts, clicks, vars, concVars>>

\* lines 88-93: stopRecording
StopRecording ==
    /\ app.isRecording
    /\ app' = [app EXCEPT !.isRecording = FALSE]
    /\ UNCHANGED <<pending, posts, clicks, vars, concVars>>

\* lines 43-61: onresult with a final transcript
SpeechResult(u) ==
    /\ app.isRecording
    /\ Len(app.transcribedText) + Len(u) <= MaxTranscript
    /\ app' = [app EXCEPT !.transcribedText = @ \o u]
    /\ UNCHANGED <<pending, posts, clicks, vars, concVars>>

\* lines 238-246: the textarea, drawn when the transcript is not empty
EditTranscript(t) ==
    /\ app.transcribedText # <<>>
    /\ t # app.transcribedText
    /\ app' = [app EXCEPT !.transcribedText = t]
    /\ UNCHANGED <<pending, posts, clicks, vars, concVars>>

\* the emptiness test without the trim
NothingToSummarizeNoTrim(t) == t = <<>>

\* line 96: !transcribedText.trim()
NothingToSummarize(t) == Trim(t) = <<>>

\* lines 211-219: the button is drawn when the transcript is not empty and
\* is disabled while loading or while the upstream is not connected
ButtonEnabled ==
    /\ app.transcribedText # <<>>
    /\ ~(app.isLoading \/ app.ollamaStatus # "connected")

\* lines 95-107: a click on Generate Summary runs generateSummary up to its
\* await
GenerateSummary ==
    /\ ButtonEnabled
    /\ clicks < MaxClicks
    /\ clicks' = clicks + 1
    /\ IF NothingToSummarize(app.transcribedText)
       THEN /\ app' = [app EXCEPT !.error = "Please record some text first"]
            /\ UNCHANGED <<pending, posts>>
       ELSE /\ app' = [app EXCEPT !.isLoading = TRUE, !.error = ""]
            /\ pending' = Append(pending, [text |-> app.transcribedText])
            /\ posts' = posts + 1
    /\ UNCHANGED <<vars, concVars>>

\* the failure branch without the finally block
AfterSettleNoFinally(a, o) ==
    IF o.how = "response" /\ o.success
    THEN [a EXCEPT !.summary = o.summary, !.isLoading = FALSE]
    ELSE IF o.how = "response"
    THEN [a EXCEPT !.error = "Failed to generate summary", !.isLoading = FALSE]
    ELSE [a EXCEPT !.error = IF o.error # "" THEN o.error
                             ELSE "Failed to generate summary"]

\* lines 109-119: the state after the awaited request settles with o
AfterSettle(a, o) ==
    LET settled ==
            IF o.how = "response" /\ o.success
            THEN [a EXCEPT !.summary = o.summary]
            ELSE IF o.how = "response"
            THEN [a EXCEPT !.error = "Failed to generate summary"]
            ELSE [a EXCEPT !.error = IF o.error # "" THEN o.error
                                     ELSE "Failed to generate summary"]
    IN  [settled EXCEPT !.isLoading = FALSE]

\* the oldest request in flight settles and generateSummary resumes
SummarizeSettled(o) ==
    /\ pending # <<>>
    /\ app' = AfterSettle(app, o)
    /\ pending' = Tail(pending)
    /\ UNCHANGED <<posts, clicks, vars, concVars>>

ClientNext ==
    \/ \E connected \in BOOLEAN : StatusChecked(connected)
    \/ StartRecording
    \/ StopRecording
    \/ \E u \in Utterances : SpeechResult(u)
    \/ \E t \in Typed : EditTranscript(t)
    \/ GenerateSummary
    \/ \E o \in Settlements : SummarizeSettled(o)

ClientSpec == ClientInit /\ [][ClientNext]_allVars

----------------------------------------------------------------------------
(* Vocabulary of the properties *)

\* text that is missing, empty or made of whitespace only
Blank(t) == t = Undefined \/ \A i \in 1..Len(t) : t[i] = " "

\* a streaming request whose text is a non-blank string: it passes validation
Accepted == kind = "stream" /\ text # NonString /\ ~Blank(text)

Terminal(e) == e.type \in {"complete", "error"}

TerminalCount == Cardinality({i \in 1..Len(events) : Terminal(events[i])})

ChunkEvents == SelectSeq(events, LAMBDA e : e.type = "chunk")

RECURSIVE Flatten(_)
Flatten(ss) == IF ss = <<>> THEN <<>> ELSE Head(ss) \o Flatten(Tail(ss))

\* the fragments of the first n parsed records, concatenated in arrival order
ReceivedText(n) == Flatten([i \in 1..n |-> received[i].response])

\* the positions of the done records among the parsed records, in order
DoneIdx == SelectSeq([i \in 1..Len(received) |-> i], LAMBDA i : received[i].done)

\* the positions of the complete frames among the frames, in order
CompleteIdx ==
    SelectSeq([i \in 1..Len(events) |-> i], LAMBDA i : events[i].type = "complete")

\* number of chunk frames among the first n frames
ChunksBefore(n) == Cardinality({i \in 1..n : events[i].type = "chunk"})

\* number of fragment-carrying records among the first n parsed records
FragmentsUpTo(n) == Cardinality({i \in 1..n : received[i].response # <<>>})

\* what the relay writes when every record of `sent` arrives whole
AlignedRelay ==
    ProcessLines([full |-> <<>>, ev |-> <<StartEvent>>, ends |-> 0, rcv |-> <<>>],
                 sent, text)

\* sub occurs in s as a contiguous part
Contains(s, sub) ==
    \E i \in 0..(Len(s) - Len(sub)) : SubSeq(s, i + 1, i + Len(sub)) = sub

\* every entry of a model list has a name
WellFormed(models) == \A i \in 1..Len(models) : "name" \in DOMAIN models[i]

\* the names of a well-formed model list, in order
Names(models) == [i \in 1..Len(models) |-> models[i].name]

\* the upstream state in which the model-list query does not succeed
QueryFails(up) == up.kind \in ErrorCodes

\* a step in which the 'data' listener handles a chunk, and that chunk
DataStep ==
    /\ kind = "stream" /\ pc = "relaying"
    /\ upstream = "open" /\ upstream' = "open"
    /\ Len(wire') < Len(wire)

DeliveredChunk == SubSeq(wire, 1, Len(wire) - Len(wire'))

\* the lines of a chunk that are JSON
WellFormedLines(chunk) ==
    SelectSeq(SplitLines(chunk), LAMBDA l : JSONParse(l).ok)

\* the parsed records up to and including the one that ended the response
ReceivedBeforeClose ==
    IF DoneIdx = <<>> THEN received ELSE SubSeq(received, 1, DoneIdx[1])

\* the non-empty fragments of a sequence of parsed records, in order
FragmentsOf(records) ==
    LET carrying == SelectSeq(records, LAMBDA r : r.response # <<>>)
    IN  [i \in 1..Len(carrying) |-> carrying[i].response]

----------------------------------------------------------------------------
(* Properties *)

\* C1: for an accepted streaming request at most one terminal frame (complete
\* or error) is written, the response is ended at most once, and no frame is
\* written after the response has been ended.
C1_OneTerminalOneEnd ==
    Accepted =>
        /\ TerminalCount <= 1
        /\ endCalls <= 1
        /\ \A i \in 1..Len(events) : ~events[i].late

\* C2: for an accepted streaming request whose client stays connected, once
\* the upstream body has ended or failed (after which no callback ever runs
\* again) the client has received a terminal frame and the response is ended.
C2_TerminalDelivered ==
    (Accepted /\ ~clientGone /\ upstream \in {"ended", "errored"}) =>
        /\ TerminalCount >= 1
        /\ endCalls >= 1

\* C3: when the upstream body ends and no record carried done:true, the relay
\* has written one complete frame holding the trimmed accumulator and the
\* request text, and has ended the response.
C3_CompleteOnPlainEnd ==
    (Accepted /\ upstream = "ended"
        /\ \A i \in 1..Len(sent) : ~JSONParse(sent[i]).done) =>
        /\ TerminalCount = 1
        /\ events[Len(events)].type = "complete"
        /\ events[Len(events)].content = Trim(fullResponse)
        /\ events[Len(events)].orig = text
        /\ endCalls = 1

\* C4 as stated: a streaming request with blank text is answered by an error
\* frame on the event stream, not by an HTTP error status with a JSON body,
\* and the upstream is never called.
C4_BlankRefusedAsFrame ==
    (kind = "stream" /\ Blank(text) /\ pc = "done") =>
        /\ contentType = "sse"
        /\ jsonBodies = <<>>
        /\ \E i \in 1..Len(events) : events[i].type = "error"
        /\ calls = <<>>

\* C4 amended: a streaming request with blank text is answered at once by
\* HTTP 400 with one JSON error body; no SSE header and no frame is written,
\* and the upstream is never called.
C4_BlankRefusedWith400 ==
    (kind = "stream" /\ Blank(text)) =>
        /\ calls = <<>> /\ upstream = "none" /\ events = <<>>
        /\ pc \in {"start", "done"}
        /\ pc = "done" =>
            /\ statusCode = 400 /\ contentType = "json"
            /\ Len(jsonBodies) = 1 /\ ~jsonBodies[1].success
            /\ jsonBodies[1].error = "Text is required for summarization"
            /\ endCalls = 1

C4_Witness ==
    kind = "stream" /\ text = <<" ">> /\ pc = "done" /\ statusCode = 400

\* C5: once the client has disconnected and every listener of the request is
\* registered, the upstream body is not left open: it has been destroyed, or
\* it had finished already.
C5_UpstreamCancelled ==
    (kind = "stream" /\ clientGone /\ pc = "relaying") => upstream # "open"

\* C6: once every byte of the upstream body has been delivered, the frames
\* written are those written when each record arrives whole in its own
\* chunk, however the network cut the bytes into chunks.
C6_ChunkingTransparent ==
    (Accepted /\ pc = "relaying" /\ upstream \in {"open", "ended"} /\ wire = <<>>) =>
        events = AlignedRelay.ev

\* C7: for an accepted streaming request nothing is written before the start
\* frame, the start frame is the first frame, and it is written exactly once.
C7_StartFirstOnce ==
    Accepted =>
        IF pc = "start" THEN events = <<>>
        ELSE /\ Len(events) >= 1
             /\ events[1].type = "start"
             /\ \A i \in 2..Len(events) : events[i].type # "start"

C7_Witness ==
    /\ Accepted /\ Len(events) >= 3
    /\ \E i \in 1..Len(events) : events[i].type = "chunk"
    /\ \E i \in 1..Len(events) : events[i].type = "complete"

\* C8: every chunk frame carries a non-empty fragment and the accumulator
\* after appending it; each chunk's accumulated content is the previous
\* chunk's followed by its own fragment, and the accumulator is the last
\* chunk's accumulated content (never reset or shortened).
C8_ChunksAccumulate ==
    kind = "stream" =>
        /\ \A j \in 1..Len(ChunkEvents) :
              /\ ChunkEvents[j].content # <<>>
              /\ ChunkEvents[j].full =
                    (IF j = 1 THEN <<>> ELSE ChunkEvents[j - 1].full)
                        \o ChunkEvents[j].content
              /\ j > 1 => Len(ChunkEvents[j].full) > Len(ChunkEvents[j - 1].full)
        /\ fullResponse =
              IF ChunkEvents = <<>> THEN <<>>
              ELSE ChunkEvents[Len(ChunkEvents)].full

C8_Witness ==
    /\ Len(ChunkEvents) >= 2
    /\ ChunkEvents[1].full # ChunkEvents[2].content

\* C9: each processed done:true record yields one complete frame, in order;
\* its content is the trimmed concatenation of every fragment parsed up to
\* and including that record, its originalText is the request text, the
\* done record's own fragment is written as a chunk before it, and the
\* response is ended.
C9_CompleteCarriesAll ==
    kind = "stream" =>
        /\ Len(CompleteIdx) = Len(DoneIdx)
        /\ \A j \in 1..Len(DoneIdx) :
              LET e == events[CompleteIdx[j]]
              IN  /\ e.content = Trim(ReceivedText(DoneIdx[j]))
                  /\ e.orig = text
                  /\ ChunksBefore(CompleteIdx[j]) = FragmentsUpTo(DoneIdx[j])
        /\ CompleteIdx # <<>> => endCalls >= 1

C9_Witness ==
    /\ kind = "stream" /\ text = <<" ", "a">>
    /\ Len(received) = 2 /\ received[2].done /\ received[2].response = <<"b", " ">>
    /\ events[Len(events)].type = "complete"
    /\ events[Len(events)].content = <<"a", "b">>

\* C10: POST /api/summarize with blank text answers HTTP 400 and never calls
\* the upstream.
C10_BlankSummarize400 ==
    (kind = "sync" /\ Blank(text)) =>
        /\ calls = <<>> /\ upstream = "none"
        /\ pc \in {"start", "done"}
        /\ pc = "done" =>
            /\ statusCode = 400
            /\ Len(jsonBodies) = 1 /\ ~jsonBodies[1].success

C10_Witness ==
    kind = "sync" /\ text = <<" ">> /\ pc = "done" /\ statusCode = 400

\* C11: for POST /api/summarize with valid text, a refused upstream connection
\* is answered 503 with a body that names the configured upstream URL, every
\* other failure of the upstream call is answered 500 with the upstream
\* error message as detail, a reply without a response field is answered
\* 500; in each case one response is sent and it does not say success.
C11_SummarizeFailures ==
    (kind = "sync" /\ pc = "done" /\ text # NonString /\ ~Blank(text)
        /\ (upstream = "failed" \/ sent = <<Undefined>>)) =>
        /\ Len(jsonBodies) = 1 /\ endCalls = 1
        /\ ~jsonBodies[1].success
        /\ IF upstream = "failed" /\ failure = "ECONNREFUSED"
           THEN /\ statusCode = 503
                /\ Contains(jsonBodies[1].details, OLLAMA_URL)
           ELSE /\ statusCode = 500
                /\ upstream = "failed" =>
                      jsonBodies[1].details = ErrorMessage(failure)

C11_Witness ==
    /\ kind = "sync" /\ pc = "done" /\ failure = "ECONNREFUSED"
    /\ statusCode = 503

\* C12: for POST /api/summarize with non-blank text, when the upstream call
\* succeeds the answer is 200 with success:true, originalText identical to
\* the request text (untrimmed) and summary the trimmed upstream response.
C12_SummarizeSuccess ==
    (kind = "sync" /\ pc = "done" /\ upstream = "ended" /\ sent # <<Undefined>>) =>
        /\ text # NonString /\ ~Blank(text)
        /\ statusCode = 200
        /\ Len(jsonBodies) = 1 /\ endCalls = 1
        /\ jsonBodies[1].success
        /\ jsonBodies[1].originalText = text
        /\ jsonBodies[1].summary = Trim(sent[1])

C12_Witness ==
    /\ kind = "sync" /\ pc = "done" /\ text = <<" ", "a">>
    /\ sent = << <<" ", "a", " ">> >>
    /\ jsonBodies[1].summary = <<"a">>

\* C13: every status request is answered exactly once, with HTTP 200,
\* whatever the upstream does (model list, refused, timeout, non-2xx, a
\* malformed model list); when the upstream query did not succeed, or the
\* models value is not a list, the payload has connected:false and an error
\* message.
C13_StatusNeverFails ==
    kind = "status" =>
        /\ \A i \in 1..Len(statusLog) :
              /\ statusLog[i].status = 200
              /\ (QueryFails(statusLog[i].seen) \/ statusLog[i].seen.kind = "notArray") =>
                    /\ ~statusLog[i].body.connected
                    /\ statusLog[i].body.error # <<>>
        /\ IF pc = "done"
           THEN /\ statusCode = 200 /\ contentType = "json"
                /\ Len(jsonBodies) = 1 /\ endCalls = 1
                /\ jsonBodies[1] = statusLog[Len(statusLog)].body
           ELSE jsonBodies = <<>> /\ endCalls = 0

C13_Witness ==
    /\ kind = "status" /\ pc = "done" /\ Len(statusLog) = 3
    /\ statusLog[1].seen.kind = "ECONNREFUSED"
    /\ statusLog[2].seen.kind = "notArray"
    /\ statusLog[3].seen = [kind |-> "ok", models |-> <<NoName, ModelA>>]
    /\ ~statusLog[3].body.connected

\* C14: when the status query succeeds with a list of named models (or
\* without a list), the payload has connected:true, models equal to the
\* returned names in the same order, and hasRequiredModel true exactly when
\* some returned name contains MODEL_NAME as a substring.
C14_StatusSuccessPayload ==
    kind = "status" =>
        \A i \in 1..Len(statusLog) :
           LET up   == statusLog[i].seen
               body == statusLog[i].body
           IN  /\ (up.kind = "ok" /\ WellFormed(up.models)) =>
                     /\ body.connected
                     /\ body.models = Names(up.models)
                     /\ body.hasRequiredModel <=>
                           \E j \in 1..Len(up.models) :
                              Contains(up.models[j].name, MODEL_NAME)
                     /\ body.requiredModel = MODEL_NAME
               /\ up.kind = "absent" =>
                     /\ body.connected /\ body.models = <<>>
                     /\ ~body.hasRequiredModel

C14_Witness ==
    /\ kind = "status" /\ Len(statusLog) = 2
    /\ statusLog[1].seen.models = <<ModelC, ModelB>>
    /\ statusLog[1].body.hasRequiredModel
    /\ statusLog[2].seen.models = <<ModelC>> /\ statusLog[2].seen.kind = "ok"
    /\ ~statusLog[2].body.hasRequiredModel

\* C16: two status requests that find the upstream in the same state get
\* equal payloads, and every status request queries the upstream once and
\* answers from what the upstream says at that moment, never from an earlier
\* request's result.
C16_StatusFresh ==
    kind = "status" =>
        /\ \A i, j \in 1..Len(statusLog) :
              statusLog[i].seen = statusLog[j].seen =>
                  statusLog[i].body = statusLog[j].body
        /\ \A i \in 1..Len(statusLog) :
              LET up   == statusLog[i].seen
                  body == statusLog[i].body
              IN  /\ statusLog[i].calls = 1
                  /\ body.connected => up.kind \in {"ok", "absent"}
                  /\ (body.connected /\ WellFormed(up.models)) =>
                        body.models = Names(up.models)
                  /\ QueryFails(up) =>
                        ~body.connected /\ body.error = ErrorMessage(up.kind)
                  /\ (up.kind = "ok" /\ WellFormed(up.models)) => body.connected

C16_Witness ==
    /\ kind = "status" /\ Len(statusLog) = 3
    /\ statusLog[1].seen = statusLog[2].seen
    /\ statusLog[1].body.connected /\ statusLog[1].body.hasRequiredModel
    /\ statusLog[3].seen # statusLog[2].seen
    /\ ~statusLog[3].body.connected

\* C15: a request makes at most one call to the upstream and never repeats
\* it: a valid POST /api/summarize makes one generation call with
\* stream=false, a valid POST /api/summarize-stream one with stream=true, a
\* status request one model-list call, a refused request none; this stays so
\* after the call has failed.
C15_OneCallNoRetry ==
    /\ Len(calls) <= 1
    /\ pc = "start" => calls = <<>>
    /\ (kind \in {"sync", "stream"} /\ pc # "start") =>
          IF text = NonString \/ Blank(text) THEN calls = <<>>
          ELSE calls = << [url |-> "/api/generate", stream |-> (kind = "stream"),
                           prompt |-> PromptPrefix \o text] >>
    /\ (kind = "status" /\ pc # "start") =>
          Len(calls) = 1 /\ calls[1].url = "/api/tags"
    /\ \A i \in 1..Len(statusLog) : statusLog[i].calls = 1

C15_Witness ==
    /\ kind = "stream" /\ pc = "done" /\ upstream = "failed"
    /\ failure = "ETIMEDOUT" /\ Len(calls) = 1 /\ calls[1].stream

\* C17: in every step of the 'data' listener the frames written, the
\* accumulator and the number of ends are those that the well-formed lines
\* of the chunk alone would give: a line that is not JSON writes no frame,
\* leaves the accumulator alone, does not end the response, and the
\* well-formed lines after it are relayed as if it were absent.
C17_MalformedSkipped ==
    [][DataStep =>
         LET st == ProcessLines(RelayState, WellFormedLines(DeliveredChunk), text)
         IN  /\ events' = st.ev
             /\ fullResponse' = st.full
             /\ endCalls' = st.ends
             /\ received' = st.rcv]_vars

C17_Witness ==
    /\ kind = "stream" /\ pc = "relaying" /\ upstream = "open" /\ wire = <<>>
    /\ sent = <<Garbage, Encode(<<"a">>, FALSE)>>
    /\ Len(events) = 2 /\ events[2].type = "chunk" /\ events[2].full = <<"a">>
    /\ endCalls = 0

\* C18: after an 'error' of the upstream body: if no terminal frame had been
\* written, one error frame is written and the response ended once; if the
\* response had already been ended by a done:true record, no error frame is
\* written and the response is not ended again.
C18_ErrorOnceOrSilent ==
    (Accepted /\ upstream = "errored") =>
        LET errs == {i \in 1..Len(events) : events[i].type = "error"}
        IN  IF CompleteIdx # <<>>
            THEN errs = {} /\ endCalls = 1
            ELSE /\ Cardinality(errs) = 1
                 /\ events[Len(events)].type = "error"
                 /\ endCalls = 1

\* C19: the chunk frames are, in order and one for one, the non-empty
\* fragments of the records received before the response was ended.
C19_ChunksFollowRecords ==
    kind = "stream" =>
        [j \in 1..Len(ChunkEvents) |-> ChunkEvents[j].content]
            = FragmentsOf(ReceivedBeforeClose)

\* C20: when the upstream generation call of a streaming request fails, the
\* frames are exactly start and one error frame carrying the catch block's
\* message, the response is ended once, and the failure shows as an SSE
\* frame on a 200 event stream, not as an HTTP error status or JSON body.
C20_CallFailureFrames ==
    (kind = "stream" /\ upstream = "failed") =>
        /\ pc = "done"
        /\ Len(events) = 2
        /\ events[1].type = "start"
        /\ events[2].type = "error" /\ ~events[2].late
        /\ events[2].msg =
              (IF failure = "ECONNREFUSED"
               THEN "Cannot connect to Ollama. Please ensure Ollama is running locally."
               ELSE "Failed to generate summary")
        /\ endCalls = 1
        /\ statusCode = 200 /\ contentType = "sse" /\ jsonBodies = <<>>

C20_Witness ==
    /\ kind = "stream" /\ upstream = "failed" /\ failure = "ECONNREFUSED"
    /\ Len(events) = 2 /\ endCalls = 1

----------------------------------------------------------------------------
(* Concurrent requests *)

\* the records one request's upstream has delivered: the JSON lines of its
\* own chunks, in order
RECURSIVE RecordsOf(_)
RecordsOf(chunkSeq) ==
    IF chunkSeq = <<>> THEN <<>>
    ELSE LET ls == WellFormedLines(Head(chunkSeq))
         IN  [i \in 1..Len(ls) |-> JSONParse(ls[i])] \o RecordsOf(Tail(chunkSeq))

OwnRecords(r) == RecordsOf(reqs[r].chunks)

OwnFragments(r) == FragmentsOf(OwnRecords(r))

\* the positions of the done records among a request's own records
OwnDone(r) ==
    SelectSeq([i \in 1..Len(OwnRecords(r)) |-> i], LAMBDA i : OwnRecords(r)[i].done)

FramesOf(r, type) == SelectSeq(reqs[r].ev, LAMBDA e : e.type = type)

\* everything request r has produced is a function of its own text and its
\* own upstream records
BuiltFromOwn(r) ==
    LET q == reqs[r]
        chunkFrames == FramesOf(r, "chunk")
        completes == FramesOf(r, "complete")
    IN  /\ q.kind = "stream" /\ q.pc = "relaying" =>
            /\ fullResponses[r] = Flatten(OwnFragments(r))
            /\ Len(chunkFrames) = Len(OwnFragments(r))
            /\ \A j \in 1..Len(chunkFrames) :
                  /\ chunkFrames[j].content = OwnFragments(r)[j]
                  /\ chunkFrames[j].full = Flatten(SubSeq(OwnFragments(r), 1, j))
            /\ Len(completes) = Len(OwnDone(r))
            /\ \A j \in 1..Len(completes) :
                  /\ completes[j].orig = q.text
                  /\ completes[j].content =
                        Trim(Flatten(FragmentsOf(SubSeq(OwnRecords(r), 1,
                                                        OwnDone(r)[j]))))
        /\ q.kind = "sync" =>
              \A i \in 1..Len(q.bodies) :
                  q.bodies[i].success =>
                      /\ q.bodies[i].summary = Trim(q.reply)
                      /\ q.bodies[i].originalText = q.text

\* a step is the callback of one request: it changes the state of at most
\* one of them
OneRequestPerStep ==
    \A r, o \in Ids :
        (r # o /\ <<reqs[r], fullResponses[r]>>' # <<reqs[r], fullResponses[r]>>)
            => <<reqs[o], fullResponses[o]>>' = <<reqs[o], fullResponses[o]>>

\* no callback of one request writes the state of the other
RequestsFramed == [][OneRequestPerStep]_allVars

\* C21: for any interleaving of the callbacks of two simultaneous requests,
\* the accumulator, chunk frames, complete content and originalText of each
\* request are built from that request's own text and own upstream records
\* only, whatever the other request has done in between.
C21_RequestsIndependent ==
    reqs # <<>> => \A r \in Ids : BuiltFromOwn(r)

\* two streams with different texts and different fragments, their 'data'
\* callbacks interleaved: r1 has completed while r2 is still open
C21_Witness ==
    /\ reqs # <<>>
    /\ reqs["r1"].kind = "stream" /\ reqs["r2"].kind = "stream"
    /\ reqs["r1"].text # reqs["r2"].text
    /\ FramesOf("r1", "complete") # <<>>
    /\ FramesOf("r2", "complete") = <<>>
    /\ reqs["r2"].up = "open"
    /\ Len(reqs["r1"].chunks) = 2 /\ Len(reqs["r2"].chunks) = 1
    /\ OwnFragments("r1") # <<>> /\ OwnFragments("r2") # <<>>
    /\ fullResponses["r1"] # fullResponses["r2"]

----------------------------------------------------------------------------
(* The client *)

\* a transcript that is empty or made of spaces and newlines only
WhitespaceOnly(t) == \A i \in 1..Len(t) : t[i] \in {" ", NL}

\* a step in which generateSummary runs
GenerateStep == clicks' = clicks + 1

\* C22: when generateSummary runs on an empty or whitespace-only transcript
\* it posts no summarize request, sets the error message, and leaves
\* isLoading false and the summary as it was.
C22_BlankNeverPosted ==
    [][(GenerateStep /\ WhitespaceOnly(app.transcribedText)) =>
           /\ posts' = posts /\ pending' = pending
           /\ app'.error = "Please record some text first"
           /\ app'.isLoading = FALSE
           /\ app'.summary = app.summary
           /\ app'.transcribedText = app.transcribedText]_allVars

\* generateSummary has run on a whitespace-only transcript, with a summary
\* of an earlier request on display
C22_Witness ==
    /\ clicks = 2 /\ posts = 1
    /\ app.transcribedText \in {<<" ">>, <<NL>>, <<" ", " ">>}
    /\ app.error = "Please record some text first"
    /\ app.summary = <<"s">>
    /\ ~app.isLoading

\* C23: isLoading is true exactly while a summarize request posted by
\* generateSummary is in flight, so it is false again once the request has
\* settled, however it settled, and at most one request is in flight.
C23_LoadingIffInFlight ==
    app # <<>> =>
        /\ app.isLoading <=> pending # <<>>
        /\ Len(pending) <= 1
        /\ posts <= clicks

\* a second request, posted after the first had settled, has failed without
\* a response and isLoading is false again
C23_Witness ==
    /\ posts = 2 /\ pending = <<>>
    /\ app # <<>> /\ ~app.isLoading
    /\ app.error = "Failed to generate summary"
    /\ app.summary = <<"s">>

====
